---- MODULE Spec2Model ----
(***************************************************************************)
(* A model of SearchInWorkspaceResultTreeWidget                            *)
(* (packages/search-in-workspace/src/browser/                              *)
(*  search-in-workspace-result-tree-widget.tsx).                           *)
(*                                                                         *)
(* The widget's tree nodes are JavaScript objects that are shared by       *)
(* reference (a line node points at its file node, a suspended callback    *)
(* keeps the root node it looked up), so the model keeps them in three     *)
(* heaps, rootNodes, fileNodes and lineNodes; an object is the index of    *)
(* its record in its heap.  An object that nothing refers to any more      *)
(* (not the tree, the published snapshot or a suspended call) is           *)
(* collected: its place holds Null and is the next to be reused.           *)
(*                                                                         *)
(* A text is a sequence of numbers, one per character: 0 is a character    *)
(* outside every match, k > 0 a character of the k-th match of the file as *)
(* the provider found it, ReplChar a character written by a replacement.   *)
(* The program never looks at the numbers, only at positions and lengths;  *)
(* they let a property say where the text of a match is after an edit.     *)
(***************************************************************************)
EXTENDS Integers, Sequences, FiniteSets, Bags, TLC

VARIABLES
    resultTree,          \* Map<string, RootFolderNode>: sequence of [key, node], insertion order
    rootNodes,           \* heap of SearchInWorkspaceRootFolderNode objects
    fileNodes,           \* heap of SearchInWorkspaceFileNode objects
    lineNodes,           \* heap of SearchInWorkspaceResultLineNode objects
    modelRootChildren,   \* model.root.children: the published snapshot (root objects)
    searchTerm,          \* this.searchTerm, as its length
    replaceTerm,         \* this._replaceTerm, as its length
    cancelIndicator,     \* the current CancellationTokenSource (its number)
    cancelled,           \* the tokens whose cancellation was requested
    searchCall,          \* per token: the state of its searchService.search call
    pendingResults,      \* bag of the onResult callbacks suspended at createFileNode (icon)
    pendingReplace,      \* replaceResult calls suspended at doOpen
    docs,                \* file -> the lines of the document the editor shows
    shownEditors,        \* the files an editor widget currently shows
    appliedDecorations,  \* this.appliedDecorations: file -> the decorations deltaDecorations returned
    editorDecorations,   \* file -> the decorations the file's editor holds
    providerCancels,     \* the search ids searchService.cancel was called with
    edits,               \* the replace operations handed to editor.replaceText, in order
    preview,             \* the text of the replace preview made last
    discovered,          \* history: the roots in the order of their first match that
                         \* onResult did not drop, since search() was last called
    delivered,           \* history: the matches the provider delivered to the current search
                         \* with the search id it gave it (recorded by Deliver only)
    contributors,        \* heap of the proxyContributor objects DebugMainImpl created
    proxyContributors,   \* DebugMainImpl.proxyContributors: contributorId -> contributor
    pluginContributors,  \* the contribution manager's registry: debug type -> contributor
    createCalls,         \* the createDebugSession calls made, in order, and their state
    factoryCalls,        \* bag of the getConnectionFactory calls awaiting sessionIdDeferred
    connections,         \* the ensureConnection calls made, in order: [contributor, id], and
                         \* (history) the number of sessions there were at the call
    returned             \* history: the createDebugSession calls that returned:
                         \* [contributor, call, sessionId], in order of their return

vars == << resultTree, rootNodes, fileNodes, lineNodes, modelRootChildren,
           searchTerm, replaceTerm, cancelIndicator, cancelled, searchCall,
           pendingResults, pendingReplace, docs, shownEditors,
           appliedDecorations, editorDecorations, providerCancels, edits, preview, discovered,
           delivered, contributors, proxyContributors, pluginContributors,
           createCalls, factoryCalls, connections, returned >>

\* the state of the search widget
widgetVars == << resultTree, rootNodes, fileNodes, lineNodes, modelRootChildren,
                 searchTerm, replaceTerm, cancelIndicator, cancelled, searchCall,
                 pendingResults, pendingReplace, docs, shownEditors,
                 appliedDecorations, editorDecorations, providerCancels, edits, preview,
                 discovered, delivered >>

\* the state of DebugMainImpl and of the objects it works with
debugVars == << contributors, proxyContributors, pluginContributors,
                createCalls, factoryCalls, connections, returned >>

(***************************************************************************)
(* Bounds of the model.                                                    *)
(***************************************************************************)
MaxSearches == 2
MaxLineNodes == 2
MaxPending == 2
MaxReplaceLines == 3
MaxCollapseMatches == 21

(***************************************************************************)
(* Program constants.                                                      *)
(***************************************************************************)
CollapseThreshold == 20

ReplChar == -1

(***************************************************************************)
(* Sequence helpers.                                                       *)
(***************************************************************************)
Range(s) == { s[i] : i \in 1..Len(s) }

RemoveAt(s, i) == [ j \in 1..(Len(s) - 1) |-> IF j < i THEN s[j] ELSE s[j + 1] ]

\* Array.prototype.findIndex: the first index whose element satisfies P, 0 for -1
FindIndex(s, P(_)) ==
    IF \E i \in 1..Len(s) : P(s[i])
    THEN CHOOSE i \in 1..Len(s) : P(s[i]) /\ \A j \in 1..(i - 1) : ~P(s[j])
    ELSE 0

\* Array.prototype.filter
Filter(s, P(_)) == SelectSeq(s, P)

\* String.prototype.substr(start, length) on a text, start counted from 0
Substr(s, start, length) ==
    LET n == Len(s)
        b == IF start < 0 THEN (IF n + start < 0 THEN 0 ELSE n + start) ELSE start
        l == IF length < 0 THEN 0 ELSE length
        e == IF b + l > n THEN n ELSE b + l
    IN  IF b >= n THEN << >> ELSE SubSeq(s, b + 1, e)

\* String.prototype.substr(start): to the end of the text
SubstrFrom(s, start) == Substr(s, start, Len(s))

\* a text of n replacement characters: this._replaceTerm
ReplText(n) == [ i \in 1..n |-> ReplChar ]

(***************************************************************************)
(* The widget as one record, so that the methods, which call each other,   *)
(* are operators from widget to widget.                                    *)
(***************************************************************************)
Widget ==
    [ resultTree |-> resultTree, rootNodes |-> rootNodes, fileNodes |-> fileNodes,
      lineNodes |-> lineNodes, modelRootChildren |-> modelRootChildren,
      appliedDecorations |-> appliedDecorations, editorDecorations |-> editorDecorations ]

SetWidget(w) ==
    /\ resultTree' = w.resultTree
    /\ rootNodes' = w.rootNodes
    /\ fileNodes' = w.fileNodes
    /\ lineNodes' = w.lineNodes
    /\ modelRootChildren' = w.modelRootChildren
    /\ appliedDecorations' = w.appliedDecorations
    /\ editorDecorations' = w.editorDecorations

\* Map.get: the root object stored under key, 0 for undefined
TreeGet(tree, key) ==
    LET i == FindIndex(tree, LAMBDA e : e.key = key)
    IN  IF i = 0 THEN 0 ELSE tree[i].node

\* Array.from(this.resultTree.values())
TreeValues(tree) == [ i \in 1..Len(tree) |-> tree[i].node ]

(***************************************************************************)
(* The heaps.                                                              *)
(***************************************************************************)
Null == [ free |-> TRUE ]

Live(heap) == { i \in 1..Len(heap) : heap[i] # Null }

\* the place of a new object: the first free one
New(heap) ==
    IF \E i \in 1..Len(heap) : heap[i] = Null
    THEN CHOOSE i \in 1..Len(heap) : heap[i] = Null /\ \A j \in 1..(i - 1) : heap[j] # Null
    ELSE Len(heap) + 1

Store(heap, i, obj) ==
    IF i <= Len(heap) THEN [ heap EXCEPT ![i] = obj ] ELSE Append(heap, obj)

RECURSIVE Trim(_)
Trim(heap) ==
    IF heap # << >> /\ heap[Len(heap)] = Null THEN Trim(SubSeq(heap, 1, Len(heap) - 1))
    ELSE heap

Sweep(heap, live) ==
    Trim([ i \in 1..Len(heap) |-> IF i \in live THEN heap[i] ELSE Null ])

\* the widget after the objects are collected that neither the tree, the
\* published snapshot, a suspended onResult (pr) nor a suspended replaceResult
\* (prep) leads to
Collect(w, pr, prep) ==
    LET l0 == UNION { { c.toReplace[i] : i \in 1..Len(c.toReplace) } :
                      c \in { prep[k] : k \in 1..Len(prep) } }
        f0 == { w.lineNodes[l].parent : l \in l0 }
        r == { w.resultTree[i].node : i \in 1..Len(w.resultTree) }
               \cup { w.modelRootChildren[i] : i \in 1..Len(w.modelRootChildren) }
               \cup { c.rootFolderNode : c \in BagToSet(pr) }
               \cup { w.fileNodes[f].parent : f \in f0 }
        f == f0 \cup UNION { { w.rootNodes[x].children[i] :
                                 i \in 1..Len(w.rootNodes[x].children) } : x \in r }
        l == l0 \cup UNION { { w.fileNodes[x].children[i] :
                                 i \in 1..Len(w.fileNodes[x].children) } : x \in f }
    IN  [ w EXCEPT !.rootNodes = Sweep(@, r), !.fileNodes = Sweep(@, f),
                   !.lineNodes = Sweep(@, l) ]

(***************************************************************************)
(* What the search provider can report.  A result is                       *)
(* [root, file, line, character, length, lineText]; line and character     *)
(* count from 1.  Text(file, ln) is the line as the provider read it.      *)
(***************************************************************************)
Roots == { "R1", "R2" }

\* file "a": "foo foo foo" / "fo foo" (a regular expression fo+ matches both words)
\* file "b": "foofoo";  file "c" (under R2): "foo"
\* file "d": one line on which every character is a match of its own
\* file "u": "foo foo", a file whose content cannot be read or opened
FileRoot == [ f \in { "a", "b", "d", "u" } |-> "R1" ] @@ [ f \in { "c" } |-> "R2" ]

Files == DOMAIN FileRoot

FileText ==
    [ f \in Files |->
        CASE f = "a" -> << << 1, 1, 1, 0, 2, 2, 2, 0, 3, 3, 3 >>, << 4, 4, 0, 5, 5, 5 >> >>
          [] f = "b" -> << << 1, 1, 1, 2, 2, 2 >> >>
          [] f = "d" -> << [ i \in 1..MaxCollapseMatches |-> i ] >>
          [] f = "u" -> << << 1, 1, 1, 0, 2, 2, 2 >> >>
          [] OTHER   -> << << 1, 1, 1 >> >> ]

\* the files for which editorManager.open and resource.readContents reject
Unreadable == { "u" }

Result(f, ln, ch, len) ==
    [ root |-> FileRoot[f], file |-> f, line |-> ln, character |-> ch,
      length |-> len, lineText |-> FileText[f][ln] ]

(***************************************************************************)
(* Node construction.                                                      *)
(***************************************************************************)
createRootFolderNode(rootUri) ==
    [ id |-> rootUri, children |-> << >> ]

createFileNode(rootUri, file, parent) ==
    [ id |-> << rootUri, file >>, file |-> file, parent |-> parent,
      children |-> << >>, expanded |-> TRUE ]

createResultLineNode(result, fileNode, fileId) ==
    [ file |-> result.file, line |-> result.line, character |-> result.character,
      length |-> result.length, lineText |-> result.lineText,
      id |-> << fileId, result.line, result.character, result.length >>,
      parent |-> fileNode ]

\* SearchInWorkspaceResultLineNode.equal
equal(one, other) ==
    one.line = other.line /\ one.character = other.character /\ one.lineText = other.lineText

(***************************************************************************)
(* Decorations.  A decoration is the range of one line node; the handles   *)
(* editor.deltaDecorations returns are modelled by the decorations they    *)
(* name.                                                                   *)
(***************************************************************************)
createEditorDecorations(w, resultNode) ==
    IF resultNode = 0 THEN << >>
    ELSE LET ch == w.fileNodes[resultNode].children
         IN  [ i \in 1..Len(ch) |->
                 [ line |-> w.lineNodes[ch[i]].line - 1,
                   start |-> w.lineNodes[ch[i]].character - 1,
                   end |-> w.lineNodes[ch[i]].character - 1 + w.lineNodes[ch[i]].length ] ]

\* the decorations ds without one occurrence of each decoration of old
RECURSIVE Without(_, _)
Without(ds, old) ==
    IF old = << >> THEN ds
    ELSE LET i == FindIndex(ds, LAMBDA d : d = Head(old))
         IN  Without(IF i = 0 THEN ds ELSE RemoveAt(ds, i), Tail(old))

\* editor.deltaDecorations({ newDecorations, oldDecorations }): what the editor
\* holds afterwards; the decorations it returns are the new ones
deltaDecorations(held, newDecorations, oldDecorations) ==
    Without(held, oldDecorations) \o newDecorations

\* a sync that hands the editor no old decorations
decorateEditorNoOld(w, node, file) ==
    [ w EXCEPT !.editorDecorations[file] =
                   deltaDecorations(@, createEditorDecorations(w, node), << >>),
               !.appliedDecorations[file] = createEditorDecorations(w, node) ]

\* the editor of `file` is no diff editor: its old decorations are replaced by the new
decorateEditor(w, node, file) ==
    [ w EXCEPT !.editorDecorations[file] =
                   deltaDecorations(@, createEditorDecorations(w, node),
                                    w.appliedDecorations[file]),
               !.appliedDecorations[file] = createEditorDecorations(w, node) ]

RECURSIVE Flatten(_)
Flatten(ss) == IF ss = << >> THEN << >> ELSE Head(ss) \o Flatten(Tail(ss))

\* every root's path is a parent of the files reported under it
getFileNodesByUri(w, file) ==
    Flatten([ i \in 1..Len(w.resultTree) |->
                Filter(w.rootNodes[w.resultTree[i].node].children,
                       LAMBDA fn : w.fileNodes[fn].file = file) ])

RECURSIVE DecorateAll(_, _, _)
DecorateAll(w, nodes, file) ==
    IF nodes = << >> THEN w
    ELSE DecorateAll(decorateEditor(w, Head(nodes), file), Tail(nodes), file)

\* The second pass, over editorManager.currentEditor, repeats the first for one
\* of the shown editors and leaves the same decorations.
RECURSIVE DecorateEditors(_, _)
DecorateEditors(w, eds) ==
    IF eds = {} THEN w
    ELSE LET f == CHOOSE x \in eds : TRUE
         IN  DecorateEditors(DecorateAll(w, getFileNodesByUri(w, f), f), eds \ { f })

updateCurrentEditorDecorations(w, eds) == DecorateEditors(w, eds)

\* model.root is the SearchInWorkspaceRoot the constructor made
refreshModelChildren(w, eds) ==
    updateCurrentEditorDecorations(
        [ w EXCEPT !.modelRootChildren = TreeValues(w.resultTree) ], eds)

(***************************************************************************)
(* The plugins' contributor ids and the debug types of their descriptions. *)
(***************************************************************************)
ContributorIds == { "c1", "c2" }
DebugTypes == { "node", "java" }

(***************************************************************************)
(* The initial state: the widget and DebugMainImpl as constructed.         *)
(***************************************************************************)
Init ==
    /\ resultTree = << >>
    /\ rootNodes = << >>
    /\ fileNodes = << >>
    /\ lineNodes = << >>
    /\ modelRootChildren = << >>
    /\ searchTerm = 0
    /\ replaceTerm = 0
    /\ cancelIndicator = 0
    /\ cancelled = {}
    /\ searchCall = << >>
    /\ pendingResults = EmptyBag
    /\ pendingReplace = << >>
    /\ docs = FileText
    /\ shownEditors = {}
    /\ appliedDecorations = [ f \in Files |-> << >> ]
    /\ editorDecorations = [ f \in Files |-> << >> ]
    /\ providerCancels = {}
    /\ edits = << >>
    /\ preview = << >>
    /\ discovered = << >>
    /\ delivered = { }
    /\ contributors = << >>
    /\ proxyContributors = [ contributorId \in ContributorIds |-> 0 ]
    /\ pluginContributors = [ type \in DebugTypes |-> 0 ]
    /\ createCalls = << >>
    /\ factoryCalls = EmptyBag
    /\ connections = << >>
    /\ returned = << >>

(***************************************************************************)
(* A step's new widget: w with the unreachable objects collected, and the  *)
(* suspended calls.                                                        *)
(***************************************************************************)
SetState(w, pr, prep) ==
    /\ SetWidget(Collect(w, pr, prep))
    /\ pendingResults' = pr
    /\ pendingReplace' = prep

(***************************************************************************)
(* search(searchTerm, searchOptions), up to its await.                     *)
(* cancel() runs the listener the previous search registered once its      *)
(* search id was known.                                                    *)
(***************************************************************************)
SearchIdOf(token) ==
    IF token \in 1..Len(searchCall) /\ searchCall[token] = "resolved" THEN token ELSE 0

\* a search that keeps the entries of the previous search
searchNoClear(w, term, eds) ==
    IF term = 0 THEN refreshModelChildren([ w EXCEPT !.resultTree = << >> ], eds) ELSE w

\* a search that publishes nothing for the empty term
searchNoRefresh(w, term, eds) ==
    [ w EXCEPT !.resultTree = << >> ]

\* lines 199-207
search(w, term, eds) ==
    LET cleared == [ w EXCEPT !.resultTree = << >> ]
    IN  IF term = 0 THEN refreshModelChildren(cleared, eds) ELSE cleared

\* a search that leaves the token of the previous search uncancelled
SearchNoCancel(term) ==
    /\ Len(searchCall) < MaxSearches
    /\ searchTerm' = term
    /\ cancelIndicator' = Len(searchCall) + 1
    /\ SetState(search(Widget, term, shownEditors), pendingResults, pendingReplace)
    /\ searchCall' = Append(searchCall, IF term = 0 THEN "none" ELSE "awaiting")
    /\ discovered' = << >>
    /\ delivered' = { }
    /\ UNCHANGED debugVars
    /\ UNCHANGED << replaceTerm, docs, shownEditors, edits, preview, cancelled,
                    providerCancels >>

Search(term) ==
    /\ Len(searchCall) < MaxSearches
    /\ searchTerm' = term
    /\ cancelled' = cancelled \cup { cancelIndicator }
    /\ providerCancels' =
         IF cancelIndicator \notin cancelled /\ SearchIdOf(cancelIndicator) # 0
         THEN providerCancels \cup { SearchIdOf(cancelIndicator) }
         ELSE providerCancels
    /\ cancelIndicator' = Len(searchCall) + 1
    /\ SetState(search(Widget, term, shownEditors), pendingResults, pendingReplace)
    /\ searchCall' = Append(searchCall, IF term = 0 THEN "none" ELSE "awaiting")
    /\ discovered' = << >>
    /\ delivered' = { }
    /\ UNCHANGED debugVars
    /\ UNCHANGED << replaceTerm, docs, shownEditors, edits, preview >>

\* searchService.search resolves with the search id; the cancellation listener is
\* registered, and runs at once for a token that is already cancelled
SearchResolved(token) ==
    /\ token \in 1..Len(searchCall)
    /\ searchCall[token] = "awaiting"
    /\ searchCall' = [ searchCall EXCEPT ![token] = "resolved" ]
    /\ providerCancels' = IF token \in cancelled THEN providerCancels \cup { token }
                          ELSE providerCancels
    /\ UNCHANGED << resultTree, rootNodes, fileNodes, lineNodes, modelRootChildren,
                    searchTerm, replaceTerm, cancelIndicator, cancelled,
                    pendingResults, pendingReplace, docs, shownEditors,
                    appliedDecorations, editorDecorations, edits, preview, discovered,
                    delivered, debugVars >>

\* searchService.search rejects: .catch(e => { return; }) leaves searchId undefined
SearchRejected(token) ==
    /\ token \in 1..Len(searchCall)
    /\ searchCall[token] = "awaiting"
    /\ searchCall' = [ searchCall EXCEPT ![token] = "rejected" ]
    /\ UNCHANGED << resultTree, rootNodes, fileNodes, lineNodes, modelRootChildren,
                    searchTerm, replaceTerm, cancelIndicator, cancelled,
                    pendingResults, pendingReplace, docs, shownEditors,
                    appliedDecorations, editorDecorations, providerCancels, edits, preview, discovered,
                    delivered, debugVars >>

(***************************************************************************)
(* The callbacks search() hands to the provider.                           *)
(***************************************************************************)
\* an append that collapses the file node one match early
appendLineEarly(w, fileNode, result) ==
    LET line == createResultLineNode(result, fileNode, w.fileNodes[fileNode].id)
        ch == w.fileNodes[fileNode].children
    IN  IF FindIndex(ch, LAMBDA l : equal(w.lineNodes[l], line)) = 0
        THEN [ w EXCEPT !.lineNodes = Store(@, New(@), line),
                        !.fileNodes[fileNode].children = Append(@, New(w.lineNodes)),
                        !.fileNodes[fileNode].expanded =
                            IF Len(ch) + 1 >= CollapseThreshold - 1 /\ @ THEN FALSE ELSE @ ]
        ELSE w

\* lines 219-226: the file node exists; append the line unless an equal one is there
appendLine(w, fileNode, result) ==
    LET line == createResultLineNode(result, fileNode, w.fileNodes[fileNode].id)
        ch == w.fileNodes[fileNode].children
    IN  IF FindIndex(ch, LAMBDA l : equal(w.lineNodes[l], line)) = 0
        THEN [ w EXCEPT !.lineNodes = Store(@, New(@), line),
                        !.fileNodes[fileNode].children = Append(@, New(w.lineNodes)),
                        !.fileNodes[fileNode].expanded =
                            IF Len(ch) + 1 >= CollapseThreshold /\ @ THEN FALSE ELSE @ ]
        ELSE w

\* a filter that lets every callback pass
onResultNeverStale(token, aSearchId) == FALSE

\* token.isCancellationRequested || aSearchId !== searchId
onResultStale(token, aSearchId) ==
    token \in cancelled \/ aSearchId # SearchIdOf(token)

\* what a callback suspended at `await this.createFileNode(...)` keeps
Continuation(token, rootFolderNode, result) ==
    [ token |-> token, rootFolderNode |-> rootFolderNode, result |-> result ]

\* the provider was asked to search for this token
ProviderRuns(token) ==
    token \in 1..Len(searchCall) /\ searchCall[token] \in { "awaiting", "resolved" }

\* lines 213-218: the file node of the result under its root, 0 when there is none
\* (0 too when there is no root)
findFileNode(w, result) ==
    LET rootFolderNode == TreeGet(w.resultTree, result.root)
    IN  IF rootFolderNode = 0 THEN 0
        ELSE LET fi == FindIndex(w.rootNodes[rootFolderNode].children,
                                 LAMBDA f : w.fileNodes[f].file = result.file)
             IN  IF fi = 0 THEN 0 ELSE w.rootNodes[rootFolderNode].children[fi]

\* lines 235-236
setNewRoot(w, result) ==
    [ w EXCEPT !.rootNodes = Store(@, New(@), createRootFolderNode(result.root)),
               !.resultTree = Append(@, [ key |-> result.root, node |-> New(w.rootNodes) ]) ]

\* A suspended callback will make one file node and one line node.
Room(heap, n, max) == Cardinality(Live(heap)) + n < max

\* onResult up to its first await (or to its end, when it awaits nothing).
\* B bounds the heaps and the suspended callbacks: [roots, lines, pending].
OnResultCallback(token, aSearchId, result, B) ==
    /\ ProviderRuns(token)
    /\ IF onResultStale(token, aSearchId)
       THEN UNCHANGED << resultTree, rootNodes, fileNodes, lineNodes, modelRootChildren,
                         appliedDecorations, editorDecorations, pendingResults, pendingReplace >>
       ELSE IF findFileNode(Widget, result) # 0
       THEN LET w == appendLine(Widget, findFileNode(Widget, result), result)
            IN  /\ Cardinality(Live(w.lineNodes)) + BagCardinality(pendingResults) <= B.lines
                /\ SetState(w, pendingResults, pendingReplace)
       ELSE /\ BagCardinality(pendingResults) < B.pending
            /\ Room(fileNodes, BagCardinality(pendingResults), B.lines)
            /\ Room(lineNodes, BagCardinality(pendingResults), B.lines)
            /\ IF TreeGet(resultTree, result.root) # 0
               THEN SetState(Widget,
                             pendingResults (+) SetToBag({
                                    Continuation(token, TreeGet(resultTree, result.root), result) }),
                             pendingReplace)
               ELSE /\ Room(rootNodes, 0, B.roots)
                    /\ SetState(setNewRoot(Widget, result),
                                  pendingResults (+) SetToBag({
                                         Continuation(token, New(rootNodes), result) }),
                                  pendingReplace)
    /\ discovered' = IF onResultStale(token, aSearchId) \/ result.root \in Range(discovered)
                     THEN discovered
                     ELSE Append(discovered, result.root)
    /\ UNCHANGED << searchTerm, replaceTerm, cancelIndicator, cancelled, searchCall,
                    docs, shownEditors, providerCancels, edits, preview >>

OnResult(token, aSearchId, result, B) ==
    /\ OnResultCallback(token, aSearchId, result, B)
    /\ UNCHANGED delivered
    /\ UNCHANGED debugVars

\* the provider delivers a match of the search of token, with the id of that search
Deliver(token, result, B) ==
    /\ OnResultCallback(token, token, result, B)
    /\ delivered' = delivered \cup { result }
    /\ UNCHANGED debugVars

\* the icon is there: lines 228-231 and 238-240, which check nothing again
onResultResume(w, c) ==
    LET fid == New(w.fileNodes)
        lid == New(w.lineNodes)
        newFileNode == createFileNode(c.result.root, c.result.file, c.rootFolderNode)
        line == createResultLineNode(c.result, fid, newFileNode.id)
    IN  [ w EXCEPT !.lineNodes = Store(@, lid, line),
                   !.fileNodes = Store(@, fid, [ newFileNode EXCEPT !.children = << lid >> ]),
                   !.rootNodes[c.rootFolderNode].children = Append(@, fid) ]

OnResultResume(c) ==
    /\ c \in BagToSet(pendingResults)
    /\ SetState(onResultResume(Widget, c), pendingResults (-) SetToBag({ c }), pendingReplace)
    /\ UNCHANGED << searchTerm, replaceTerm, cancelIndicator, cancelled, searchCall,
                    docs, shownEditors, providerCancels, edits, preview, discovered,
                    delivered, debugVars >>

\* a completion that publishes an empty snapshot
onDoneEmpty(w, token, eds) ==
    IF token \in cancelled THEN w
    ELSE updateCurrentEditorDecorations([ w EXCEPT !.modelRootChildren = << >> ], eds)

\* onDone: () => { if (token.isCancellationRequested) return; this.refreshModelChildren(); }
onDone(w, token, eds) ==
    IF token \in cancelled THEN w ELSE refreshModelChildren(w, eds)

OnDone(token) ==
    /\ ProviderRuns(token)
    /\ SetState(onDone(Widget, token, shownEditors), pendingResults, pendingReplace)
    /\ UNCHANGED << searchTerm, replaceTerm, cancelIndicator, cancelled, searchCall,
                    docs, shownEditors, providerCancels, edits, preview, discovered,
                    delivered, debugVars >>

\* the provider reports the completion with a search id; the callback declares no
\* parameter, so what it does is what onDone does
OnDoneWith(token, aSearchId) == OnDone(token)

(***************************************************************************)
(* Removal.                                                                *)
(***************************************************************************)
removeFileNode(w, node) ==
    LET rootFolderNode == w.fileNodes[node].parent
        index == FindIndex(w.rootNodes[rootFolderNode].children,
                           LAMBDA f : w.fileNodes[f].id = w.fileNodes[node].id)
    IN  IF index > 0
        THEN [ w EXCEPT !.rootNodes[rootFolderNode].children = RemoveAt(@, index) ]
        ELSE w

\* the line found by (file, line, character) among the children of node's parent
removeLineIndex(w, node) ==
    FindIndex(w.fileNodes[w.lineNodes[node].parent].children,
              LAMBDA n : /\ w.lineNodes[n].file = w.lineNodes[node].file
                         /\ w.lineNodes[n].line = w.lineNodes[node].line
                         /\ w.lineNodes[n].character = w.lineNodes[node].character)

removeLineNode(w, node) ==
    LET fileNode == w.lineNodes[node].parent
        index == removeLineIndex(w, node)
    IN  IF index > 0
        THEN LET w1 == [ w EXCEPT !.fileNodes[fileNode].children = RemoveAt(@, index) ]
             IN  IF Len(w1.fileNodes[fileNode].children) = 0
                 THEN removeFileNode(w1, fileNode)
                 ELSE w1
        ELSE w

\* kind is what SearchInWorkspaceFileNode.is / SearchInWorkspaceResultLineNode.is tell
removeNode(w, kind, node, eds) ==
    refreshModelChildren(
        IF kind = "file" THEN removeFileNode(w, node)
        ELSE IF kind = "line" THEN removeLineNode(w, node)
        ELSE w,
        eds)

\* The nodes the tree widget shows: those under the published roots.
ShownFileNodes ==
    UNION { Range(rootNodes[r].children) : r \in Range(modelRootChildren) }

ShownLineNodes ==
    UNION { Range(fileNodes[f].children) : f \in ShownFileNodes }

ShownNodes ==
    { [ kind |-> "file", node |-> f ] : f \in ShownFileNodes }
        \cup { [ kind |-> "line", node |-> l ] : l \in ShownLineNodes }

\* a removal that ends the search, as a new search would
DoRemoveCancels(n) ==
    /\ n \in ShownNodes
    /\ SetState(removeNode(Widget, n.kind, n.node, shownEditors), pendingResults, pendingReplace)
    /\ cancelled' = cancelled \cup { cancelIndicator }
    /\ providerCancels' =
         IF cancelIndicator \notin cancelled /\ SearchIdOf(cancelIndicator) # 0
         THEN providerCancels \cup { SearchIdOf(cancelIndicator) }
         ELSE providerCancels
    /\ UNCHANGED << searchTerm, replaceTerm, cancelIndicator, searchCall,
                    docs, shownEditors, edits, preview, discovered,
                    delivered, debugVars >>

\* doRemove: a click on a node's remove button
DoRemove(n) ==
    /\ n \in ShownNodes
    /\ SetState(removeNode(Widget, n.kind, n.node, shownEditors), pendingResults, pendingReplace)
    /\ UNCHANGED << searchTerm, replaceTerm, cancelIndicator, cancelled, searchCall,
                    docs, shownEditors, providerCancels, edits, preview, discovered,
                    delivered, debugVars >>

(***************************************************************************)
(* The replace engine.                                                     *)
(***************************************************************************)
\* a correction applied to the whole list of the file, not to the line's group
updateRightResultsAnyLine(w, node) ==
    LET fileNode == w.lineNodes[node].parent
        rightPositionedNodes ==
            { rl \in Range(w.fileNodes[fileNode].children) :
                w.lineNodes[rl].character > w.lineNodes[node].character }
        diff == replaceTerm - searchTerm
    IN  [ w EXCEPT !.lineNodes =
            [ l \in DOMAIN w.lineNodes |->
                IF l \in rightPositionedNodes
                THEN [ w.lineNodes[l] EXCEPT !.character = w.lineNodes[l].character + diff ]
                ELSE w.lineNodes[l] ] ]

\* a replaceResult that corrects no offset
updateRightResultsNone(w, node) == w

updateRightResults(w, node) ==
    LET fileNode == w.lineNodes[node].parent
        rightPositionedNodes ==
            { rl \in Range(w.fileNodes[fileNode].children) :
                /\ w.lineNodes[rl].line = w.lineNodes[node].line
                /\ w.lineNodes[rl].character > w.lineNodes[node].character }
        diff == replaceTerm - searchTerm
    IN  [ w EXCEPT !.lineNodes =
            [ l \in DOMAIN w.lineNodes |->
                IF l \in rightPositionedNodes
                THEN [ w.lineNodes[l] EXCEPT !.character = w.lineNodes[l].character + diff ]
                ELSE w.lineNodes[l] ] ]

\* replaceResult, lines 421-427: a root folder node is neither a file node (it has
\* no 'file') nor a line node (it has no 'line')
toReplace(w, kind, node) ==
    IF kind = "file" THEN w.fileNodes[node].children
    ELSE IF kind = "line" THEN << node >>
    ELSE << >>

\* replaceResult up to `await this.doOpen(toReplace[0])`
replaceResult(w, kind, node) ==
    IF kind = "line" THEN updateRightResults(w, node) ELSE w

\* what replaceResult keeps over the await: nothing when toReplace is empty
replaceContinuation(w, kind, node) ==
    IF toReplace(w, kind, node) = << >> THEN << >>
    ELSE << [ toReplace |-> toReplace(w, kind, node) ] >>

\* doReplace: replaceResult is not awaited, so removeNode runs when it suspends
doReplace(w, kind, node, eds) ==
    removeNode(replaceResult(w, kind, node), kind, node, eds)

DoReplace(n) ==
    /\ n \in ShownNodes
    /\ SetState(doReplace(Widget, n.kind, n.node, shownEditors), pendingResults,
                pendingReplace \o replaceContinuation(Widget, n.kind, n.node))
    /\ UNCHANGED << searchTerm, replaceTerm, cancelIndicator, cancelled, searchCall,
                    docs, shownEditors, providerCancels, edits, preview, discovered,
                    delivered, debugVars >>

\* One replace operation on a text: the range [start, end) of line becomes text.
ReplaceRange(lines, op) ==
    IF op.line + 1 \in 1..Len(lines)
    THEN [ lines EXCEPT ![op.line + 1] =
             Substr(@, 0, op.start) \o ReplText(op.text) \o SubstrFrom(@, op.end) ]
    ELSE lines

\* the operation of a batch that starts last
LastOp(ops) ==
    CHOOSE i \in 1..Len(ops) :
        \A j \in 1..Len(ops) :
            \/ ops[j].line < ops[i].line
            \/ ops[j].line = ops[i].line /\ ops[j].start < ops[i].start
            \/ ops[j].line = ops[i].line /\ ops[j].start = ops[i].start /\ j <= i

\* editor.replaceText: the ranges of one batch all refer to the text before the
\* batch, so the batch is applied from its last range to its first.
RECURSIVE ApplyOps(_, _)
ApplyOps(lines, ops) ==
    IF ops = << >> THEN lines
    ELSE ApplyOps(ReplaceRange(lines, ops[LastOp(ops)]), RemoveAt(ops, LastOp(ops)))

\* lines 432-444, read from the line nodes when doOpen has returned
replaceOperations(w, nodes) ==
    [ i \in 1..Len(nodes) |->
        [ text |-> replaceTerm,
          line |-> w.lineNodes[nodes[i]].line - 1,
          start |-> w.lineNodes[nodes[i]].character - 1,
          end |-> w.lineNodes[nodes[i]].character - 1 + w.lineNodes[nodes[i]].length ] ]

\* replaceResult after the await: doOpen has opened the file's editor and decorated
\* it from the line's file node; the edits go to the editor's document.
ApplyReplace ==
    /\ pendingReplace # << >>
    /\ LET nodes == Head(pendingReplace).toReplace
           file == lineNodes[nodes[1]].file
           ops == replaceOperations(Widget, nodes)
       IN  IF file \in Unreadable
           THEN \* doOpen rejects, and replaceResult with it
                /\ SetState(Widget, pendingResults, Tail(pendingReplace))
                /\ UNCHANGED << shownEditors, docs, edits >>
           ELSE /\ shownEditors' = shownEditors \cup { file }
                /\ SetState(decorateEditor(Widget, lineNodes[nodes[1]].parent, file),
                            pendingResults, Tail(pendingReplace))
                /\ docs' = [ docs EXCEPT ![file] = ApplyOps(@, ops) ]
                /\ edits' = Append(edits, [ file |-> file, ops |-> ops ])
    /\ UNCHANGED << searchTerm, replaceTerm, cancelIndicator, cancelled, searchCall,
                    providerCancels, preview, discovered,
                    delivered, debugVars >>

\* replaceAll: replaceResult is called with every value of resultTree, a root
\* folder node, up to its await; then the tree is cleared and published
replaceAllContinuations(w) ==
    Flatten([ i \in 1..Len(w.resultTree) |->
                replaceContinuation(w, "root", w.resultTree[i].node) ])

replaceAll(w, eds) ==
    refreshModelChildren([ w EXCEPT !.resultTree = << >> ], eds)

ReplaceAll ==
    /\ resultTree # << >>
    /\ SetState(replaceAll(Widget, shownEditors), pendingResults,
                pendingReplace \o replaceAllContinuations(Widget))
    /\ UNCHANGED << searchTerm, replaceTerm, cancelIndicator, cancelled, searchCall,
                    docs, shownEditors, providerCancels, edits, preview, discovered,
                    delivered, debugVars >>

\* the lines of `content` as createReplacePreview leaves them after the children
\* from the k-th on
RECURSIVE previewLines(_, _, _, _)
previewLines(w, node, lines, k) ==
    LET ch == w.fileNodes[node].children
    IN  IF k > Len(ch) THEN lines
        ELSE LET l == w.lineNodes[ch[k]]
                 leftPositionedNodes ==
                     { rl \in Range(ch) : /\ w.lineNodes[rl].line = l.line
                                          /\ w.lineNodes[rl].character < l.character }
                 diff == (replaceTerm - searchTerm) * Cardinality(leftPositionedNodes)
                 start == Substr(lines[l.line], 0, l.character - 1 + diff)
                 end == SubstrFrom(lines[l.line], l.character - 1 + diff + l.length)
             IN  previewLines(w, node,
                              [ lines EXCEPT ![l.line] = start \o ReplText(replaceTerm) \o end ],
                              k + 1)

createReplacePreview(w, node, content) == previewLines(w, node, content, 1)

\* a preview that writes its lines to the file
SelectPreviewWrites(l) ==
    /\ l \in ShownLineNodes
    /\ preview' = << [ file |-> lineNodes[l].file,
                       lines |-> createReplacePreview(Widget, lineNodes[l].parent,
                                                      docs[lineNodes[l].file]) ] >>
    /\ docs' = [ docs EXCEPT ![lineNodes[l].file] =
                    createReplacePreview(Widget, lineNodes[l].parent, @) ]
    /\ UNCHANGED << resultTree, rootNodes, fileNodes, lineNodes, modelRootChildren,
                    searchTerm, replaceTerm, cancelIndicator, cancelled, searchCall,
                    pendingResults, pendingReplace, shownEditors,
                    appliedDecorations, editorDecorations, providerCancels, edits, discovered,
                    delivered, debugVars >>

\* model.onSelectionChanged -> doOpen(node, true) while the replace buttons are
\* shown: the preview is made and opened in a diff editor, which gets no decorations
SelectPreview(l) ==
    /\ l \in ShownLineNodes
    /\ preview' = IF lineNodes[l].file \in Unreadable
                  THEN preview    \* readContents rejects, and doOpen with it
                  ELSE << [ file |-> lineNodes[l].file,
                            lines |-> createReplacePreview(Widget, lineNodes[l].parent,
                                                           docs[lineNodes[l].file]) ] >>
    /\ UNCHANGED << resultTree, rootNodes, fileNodes, lineNodes, modelRootChildren,
                    searchTerm, replaceTerm, cancelIndicator, cancelled, searchCall,
                    pendingResults, pendingReplace, docs, shownEditors,
                    appliedDecorations, editorDecorations, providerCancels, edits, discovered,
                    delivered, debugVars >>

\* model.onSelectionChanged -> doOpen(node, true) while the replace buttons are
\* hidden: the file's editor is opened and decorated from the line's file node
SelectOpen(l) ==
    /\ l \in ShownLineNodes
    /\ shownEditors' = shownEditors \cup { lineNodes[l].file }
    /\ SetState(decorateEditor(Widget, lineNodes[l].parent, lineNodes[l].file),
                pendingResults, pendingReplace)
    /\ UNCHANGED << searchTerm, replaceTerm, cancelIndicator, cancelled, searchCall,
                    docs, providerCancels, edits, preview, discovered,
                    delivered, debugVars >>

\* editorManager.onActiveEditorChanged, here for an editor the user opens on file
ActiveEditorChanged(file) ==
    /\ file \notin shownEditors
    /\ shownEditors' = shownEditors \cup { file }
    /\ SetState(updateCurrentEditorDecorations(Widget, shownEditors \cup { file }),
                pendingResults, pendingReplace)
    /\ UNCHANGED << searchTerm, replaceTerm, cancelIndicator, cancelled, searchCall,
                    docs, providerCancels, edits, preview, discovered,
                    delivered, debugVars >>

\* set replaceTerm(rt)
SetReplaceTerm(rt) ==
    /\ rt # replaceTerm
    /\ replaceTerm' = rt
    /\ UNCHANGED << resultTree, rootNodes, fileNodes, lineNodes, modelRootChildren,
                    searchTerm, cancelIndicator, cancelled, searchCall,
                    pendingResults, pendingReplace, docs, shownEditors,
                    appliedDecorations, editorDecorations, providerCancels, edits, preview, discovered,
                    delivered, debugVars >>

(***************************************************************************)
(* The ResultIndex as an observer reads it: what resultTree leads to.      *)
(***************************************************************************)
LineView(l) ==
    [ file |-> lineNodes[l].file, line |-> lineNodes[l].line,
      character |-> lineNodes[l].character, length |-> lineNodes[l].length ]

FileView(f) ==
    [ id |-> fileNodes[f].id, expanded |-> fileNodes[f].expanded,
      lines |-> [ k \in 1..Len(fileNodes[f].children) |-> LineView(fileNodes[f].children[k]) ] ]

RootView(r) ==
    [ id |-> rootNodes[r].id,
      files |-> [ k \in 1..Len(rootNodes[r].children) |-> FileView(rootNodes[r].children[k]) ] ]

IndexView ==
    [ i \in 1..Len(resultTree) |->
        [ key |-> resultTree[i].key, root |-> RootView(resultTree[i].node) ] ]

IndexKeys == [ i \in 1..Len(resultTree) |-> resultTree[i].key ]

IndexFileNodes ==
    UNION { Range(rootNodes[r].children) : r \in Range(TreeValues(resultTree)) }

IndexLineNodes ==
    UNION { Range(fileNodes[f].children) : f \in IndexFileNodes }

(***************************************************************************)
(* The widget under searches of one file.                                  *)
(***************************************************************************)
Tokens == 1..MaxSearches

MainResults == { Result("a", 1, 1, 3), Result("a", 1, 5, 3) }

MainBounds == [ roots |-> MaxLineNodes, lines |-> MaxLineNodes, pending |-> MaxPending ]

Next ==
    \/ \E term \in { 0, 3 } : Search(term)
    \/ \E token \in Tokens : SearchResolved(token)
    \/ \E token \in Tokens : SearchRejected(token)
    \/ \E token \in Tokens, aSearchId \in Tokens, result \in MainResults :
           OnResult(token, aSearchId, result, MainBounds)
    \/ \E c \in BagToSet(pendingResults) : OnResultResume(c)
    \/ \E token \in Tokens : OnDone(token)
    \/ \E n \in ShownNodes : DoRemove(n)
    \/ ReplaceAll

Spec == Init /\ [][Next]_vars

(***************************************************************************)
(* The widget and the editors the user opens.                              *)
(***************************************************************************)
NextDecor ==
    \/ Next
    \/ \E file \in { "a" } : ActiveEditorChanged(file)

SpecDecor == Init /\ [][NextDecor]_vars

(***************************************************************************)
(* Searches of one file whose editor the user opens, from the tab bar or   *)
(* by selecting a line of the tree.                                        *)
(***************************************************************************)
NextSync ==
    \/ Search(3)
    \/ \E token \in Tokens : SearchResolved(token)
    \/ \E token \in Tokens, result \in MainResults :
           OnResult(token, token, result, MainBounds)
    \/ \E c \in BagToSet(pendingResults) : OnResultResume(c)
    \/ \E token \in Tokens : OnDone(token)
    \/ \E n \in ShownNodes : DoRemove(n)
    \/ \E file \in { "a" } : ActiveEditorChanged(file)
    \/ \E l \in ShownLineNodes : SelectOpen(l)

SpecSync == Init /\ [][NextSync]_vars

(***************************************************************************)
(* Searches of one file, their callbacks and removals.                     *)
(***************************************************************************)
NextRemove ==
    \/ Search(3)
    \/ \E token \in Tokens : SearchResolved(token)
    \/ \E token \in Tokens, result \in MainResults :
           OnResult(token, token, result, MainBounds)
    \/ \E c \in BagToSet(pendingResults) : OnResultResume(c)
    \/ \E token \in Tokens : OnDone(token)
    \/ \E n \in ShownNodes : DoRemove(n)

SpecRemove == Init /\ [][NextRemove]_vars

(***************************************************************************)
(* The widget under searches of a workspace of two roots.                  *)
(***************************************************************************)
RootsResults == { Result("a", 1, 1, 3), Result("c", 1, 1, 3) }

NextRoots ==
    \/ Search(3)
    \/ \E token \in Tokens : SearchResolved(token)
    \/ \E token \in Tokens, result \in RootsResults :
           OnResult(token, token, result, MainBounds)
    \/ \E c \in BagToSet(pendingResults) : OnResultResume(c)
    \/ \E token \in Tokens : OnDone(token)
    \/ ReplaceAll

SpecRoots == Init /\ [][NextRoots]_vars

(***************************************************************************)
(* One search of file "a", and the replace engine on its results.  The    *)
(* provider reads the file before the first replacement is asked for.      *)
(***************************************************************************)
ReplaceResults ==
    { Result("a", 1, 1, 3), Result("a", 1, 5, 3), Result("a", 1, 9, 3),
      Result("a", 2, 1, 2), Result("a", 2, 4, 3) }

ReplaceBounds == [ roots |-> 1, lines |-> MaxReplaceLines, pending |-> 1 ]

NextReplace ==
    \/ searchCall = << >> /\ Search(3)
    \/ SearchResolved(1)
    \/ \E result \in ReplaceResults :
           /\ edits = << >> /\ pendingReplace = << >>
           /\ OnResult(1, 1, result, ReplaceBounds)
    \/ \E c \in BagToSet(pendingResults) : OnResultResume(c)
    \/ OnDone(1)
    \/ SetReplaceTerm(6)
    \/ \E n \in ShownNodes : DoReplace(n)
    \/ ApplyReplace
    \/ ReplaceAll

SpecReplace == Init /\ [][NextReplace]_vars

(***************************************************************************)
(* One search of file "a" for a regular expression of eight characters     *)
(* that matches the three words of "foo foo foo", and replacements by the  *)
(* empty term.                                                             *)
(***************************************************************************)
RegexResults == { Result("a", 1, 1, 3), Result("a", 1, 5, 3), Result("a", 1, 9, 3) }

NextRegex ==
    \/ searchCall = << >> /\ Search(8)
    \/ SearchResolved(1)
    \/ \E result \in RegexResults :
           /\ edits = << >> /\ pendingReplace = << >>
           /\ OnResult(1, 1, result, ReplaceBounds)
    \/ \E c \in BagToSet(pendingResults) : OnResultResume(c)
    \/ OnDone(1)
    \/ \E n \in ShownNodes : DoReplace(n)
    \/ ApplyReplace

SpecRegex == Init /\ [][NextRegex]_vars

(***************************************************************************)
(* One search of file "b" for "foo", whose line "foofoo" holds two         *)
(* adjacent matches, and replacements by the empty term or by a term of    *)
(* six characters.                                                         *)
(***************************************************************************)
AdjacentResults == { Result("b", 1, 1, 3), Result("b", 1, 4, 3) }

NextAdjacent ==
    \/ searchCall = << >> /\ Search(3)
    \/ SearchResolved(1)
    \/ \E result \in AdjacentResults :
           /\ edits = << >> /\ pendingReplace = << >>
           /\ OnResult(1, 1, result, ReplaceBounds)
    \/ \E c \in BagToSet(pendingResults) : OnResultResume(c)
    \/ OnDone(1)
    \/ SetReplaceTerm(6)
    \/ \E n \in ShownNodes : DoReplace(n)
    \/ ApplyReplace

SpecAdjacent == Init /\ [][NextAdjacent]_vars

(***************************************************************************)
(* One search of file "a" that is never superseded: the provider delivers  *)
(* its matches from the moment it is asked to search, before or after the  *)
(* search id reaches the widget.                                           *)
(***************************************************************************)
NextDeliver ==
    \/ searchCall = << >> /\ Search(3)
    \/ SearchResolved(1)
    \/ \E result \in ReplaceResults : Deliver(1, result, ReplaceBounds)
    \/ \E c \in BagToSet(pendingResults) : OnResultResume(c)
    \/ OnDone(1)

SpecDeliver == Init /\ [][NextDeliver]_vars

(***************************************************************************)
(* One search of file "a", and the preview of its replacement.            *)
(***************************************************************************)
NextPreview ==
    \/ searchCall = << >> /\ Search(3)
    \/ SearchResolved(1)
    \/ \E result \in ReplaceResults : OnResult(1, 1, result, ReplaceBounds)
    \/ \E c \in BagToSet(pendingResults) : OnResultResume(c)
    \/ OnDone(1)
    \/ SetReplaceTerm(6)
    \/ \E l \in ShownLineNodes : SelectPreview(l)

SpecPreview == Init /\ [][NextPreview]_vars

(***************************************************************************)
(* One search of file "u", whose content cannot be read, with replace and  *)
(* preview requests on its results.  Matches are delivered while no        *)
(* replace request waits for its editor and no stored offset was shifted.  *)
(***************************************************************************)
\* every line node is stored at the character the provider reported
Unshifted ==
    \A l \in Live(lineNodes) : lineNodes[l].character = lineNodes[l].id[3]

FailResults == { Result("u", 1, 1, 3), Result("u", 1, 5, 3) }

NextFail ==
    \/ searchCall = << >> /\ Search(3)
    \/ SearchResolved(1)
    \/ \E result \in FailResults :
           /\ pendingReplace = << >> /\ Unshifted
           /\ OnResult(1, 1, result, MainBounds)
    \/ \E c \in BagToSet(pendingResults) : OnResultResume(c)
    \/ OnDone(1)
    \/ SetReplaceTerm(6)
    \/ \E n \in ShownNodes : DoReplace(n)
    \/ ApplyReplace
    \/ \E l \in ShownLineNodes : SelectPreview(l)

SpecFail == Init /\ [][NextFail]_vars

(***************************************************************************)
(* Searches of file "d": the provider reports the matches of the line    *)
(* from left to right, a match possibly twice; the user removes the last   *)
(* line shown.                                                             *)
(***************************************************************************)
CollapseBounds == [ roots |-> 1, lines |-> MaxCollapseMatches, pending |-> 1 ]

\* the character of the match reported last and still known, 0 when there is none
LastCharacter ==
    LET known == { lineNodes[l].character : l \in IndexLineNodes }
                    \cup { c.result.character : c \in BagToSet(pendingResults) }
    IN  IF known = { } THEN 0 ELSE CHOOSE k \in known : \A j \in known : j <= k

CollapseResults ==
    { Result("d", 1, k, 1) :
        k \in { LastCharacter, LastCharacter + 1 } \cap 1..MaxCollapseMatches }

NextCollapse ==
    \/ Search(1)
    \/ \E token \in Tokens : SearchResolved(token)
    \/ \E token \in Tokens, result \in CollapseResults :
           OnResult(token, token, result, CollapseBounds)
    \/ \E c \in BagToSet(pendingResults) : OnResultResume(c)
    \/ \E token \in Tokens : OnDone(token)
    \/ \E n \in ShownNodes :
           /\ n.kind = "line"
           /\ n.node = fileNodes[lineNodes[n.node].parent].children[
                           Len(fileNodes[lineNodes[n.node].parent].children)]
           /\ DoRemove(n)

SpecCollapse == Init /\ [][NextCollapse]_vars

(***************************************************************************)
(* The same, with the user expanding a collapsed file node of the tree     *)
(* again (the tree's expansion service sets the node's expanded flag).     *)
(***************************************************************************)
ExpandNode(f) ==
    /\ f \in ShownFileNodes
    /\ ~fileNodes[f].expanded
    /\ SetState([ Widget EXCEPT !.fileNodes[f].expanded = TRUE ], pendingResults, pendingReplace)
    /\ UNCHANGED << searchTerm, replaceTerm, cancelIndicator, cancelled, searchCall,
                    docs, shownEditors, providerCancels, edits, preview, discovered,
                    delivered, debugVars >>

NextExpand ==
    \/ NextCollapse
    \/ \E f \in ShownFileNodes : ExpandNode(f)

SpecExpand == Init /\ [][NextExpand]_vars

(***************************************************************************)
(* Staleness.                                                              *)
(***************************************************************************)
\* a callback of the session of token t runs: a delivered match, the completion,
\* or the rest of a match callback that was suspended at the icon
CallbackOf(t) ==
    \/ \E aSearchId \in Tokens, result \in MainResults :
           OnResult(t, aSearchId, result, MainBounds)
    \/ \E c \in BagToSet(pendingResults) : c.token = t /\ OnResultResume(c)
    \/ OnDone(t)

\* C1: once search() was called again, no callback of an earlier session, delivered
\* late or resumed from its suspension at the icon, changes what the ResultIndex
\* holds or publishes a snapshot.
C1_StaleCallbacksChangeNothing ==
    [][ \/ /\ IndexView' = IndexView
           /\ modelRootChildren' = modelRootChildren
        \/ \A t \in Tokens \cap cancelled : ~CallbackOf(t) ]_vars

\* a callback of a cancelled session is suspended at the icon while the index
\* already holds an entry of the current session
C1_Witness ==
    /\ resultTree # << >>
    /\ \E c \in BagToSet(pendingResults) : c.token \in cancelled

(***************************************************************************)
(* Deduplication.                                                          *)
(***************************************************************************)
\* C2: the index holds at most one LineEntry for a match (same file, line,
\* character and line text), however the deliveries of the match interleave.
C2_OneLineEntryPerMatch ==
    \A l1, l2 \in IndexLineNodes :
        (lineNodes[l1].file = lineNodes[l2].file /\ equal(lineNodes[l1], lineNodes[l2]))
            => l1 = l2

(***************************************************************************)
(* Decorations.                                                            *)
(***************************************************************************)
\* a step that reconciles: onDone of the current session, a removal, replaceAll,
\* a search for the empty term
Reconciliation ==
    \/ \E t \in Tokens \ cancelled : OnDone(t)
    \/ \E n \in ShownNodes : DoRemove(n)
    \/ ReplaceAll
    \/ Search(0)

\* C6: after every reconciliation an editor whose file has no FileEntry in the
\* index has no applied decoration.
C6_NoEntryNoDecoration ==
    [][ Reconciliation =>
            \A f \in shownEditors' :
                getFileNodesByUri(Widget', f) = << >> => appliedDecorations'[f] = << >> ]_vars

(***************************************************************************)
(* Removal.                                                                *)
(***************************************************************************)
\* C9: removing the last LineEntry of a FileEntry takes the FileEntry out of its
\* RootEntry in the same operation, and the RootEntry stays in the index.
C9_CascadingRemoval ==
    [][ \A l \in ShownLineNodes :
            LET f == lineNodes[l].parent
                r == fileNodes[f].parent
            IN  ( /\ DoRemove([ kind |-> "line", node |-> l ])
                  /\ fileNodes[f].children = << l >>
                  /\ r \in Range(TreeValues(resultTree)) )
                => /\ f \notin Range(rootNodes'[r].children)
                   /\ IndexKeys' = IndexKeys ]_vars

(***************************************************************************)
(* Discovery order.                                                        *)
(***************************************************************************)
\* the place of root in the order of discovery
Discovery(root) == FindIndex(discovered, LAMBDA x : x = root)

\* C7: the index lists its roots in the order in which the first match of each
\* root reached onResult in the session, and every snapshot that is published
\* lists the roots as the index does.
C7_DiscoveryOrder ==
    /\ [](\A i, j \in 1..Len(resultTree) :
              i < j => Discovery(resultTree[i].key) < Discovery(resultTree[j].key))
    /\ [][ modelRootChildren' # modelRootChildren
              => modelRootChildren' = TreeValues(resultTree') ]_vars

(***************************************************************************)
(* The replace engine.                                                     *)
(***************************************************************************)
\* C3: replaceOne on a line entry adds len(replaceTerm) - len(searchTerm) to the
\* stored character of every sibling to its right on the same line, in the step
\* of the replace request itself, so before any of them can be replaced.
C3_RightSiblingsShift ==
    [][ \A l \in ShownLineNodes :
            DoReplace([ kind |-> "line", node |-> l ]) =>
                \A s \in Range(fileNodes[lineNodes[l].parent].children) \cap Live(lineNodes') :
                    ( /\ lineNodes[s].line = lineNodes[l].line
                      /\ lineNodes[s].character > lineNodes[l].character )
                    => lineNodes'[s].character =
                           lineNodes[s].character + replaceTerm - searchTerm ]_vars

\* "foo foo foo" with matches at 1, 5 and 9: the first was replaced by a term of
\* six characters and the other two are stored at 8 and 12
C3_Witness ==
    /\ replaceTerm = 6 /\ searchTerm = 3
    /\ edits # << >> /\ edits[1].ops[1].start = 0 /\ edits[1].ops[1].line = 0
    /\ \E s2, s3 \in IndexLineNodes :
          /\ lineNodes[s2].line = 1 /\ lineNodes[s2].id[3] = 5 /\ lineNodes[s2].character = 8
          /\ lineNodes[s3].line = 1 /\ lineNodes[s3].id[3] = 9 /\ lineNodes[s3].character = 12

\* the text of the match of line entry l lies in the document where l says
MatchAt(l) ==
    LET n == lineNodes[l]
        text == docs[n.file][n.line]
    IN  \A i \in 0..(n.length - 1) :
            /\ n.character + i \in 1..Len(text)
            /\ text[n.character + i] = n.lineText[n.id[3]]

\* C4: once the edits asked for are applied, in the order they were issued, the
\* stored character of every line entry left in the index is where the text of
\* its match is in the document.
C4_StoredCharacterIsPosition ==
    pendingReplace = << >> => \A l \in IndexLineNodes : MatchAt(l)

\* C5: replaceAll issues a replacement for every line entry that is in the index
\* when it is called (and then empties the index and reconciles).
C5_ReplaceAllReplacesEveryLine ==
    [][ ReplaceAll =>
            /\ \A l \in IndexLineNodes :
                  \E k \in 1..Len(pendingReplace') : l \in Range(pendingReplace'[k].toReplace)
            /\ resultTree' = << >>
            /\ modelRootChildren' = << >> ]_vars

\* the text in which every match recorded under file node f is replaced
ExpectedPreview(f) ==
    ApplyOps(docs[fileNodes[f].file], replaceOperations(Widget, fileNodes[f].children))

\* C10: the preview made for a file entry is the text of the file with every
\* recorded match replaced by the replacement term, whatever order the matches
\* arrived in.
C10_PreviewReplacesEveryMatch ==
    [][ \A l \in ShownLineNodes :
            SelectPreview(l) => preview'[1].lines = ExpectedPreview(lineNodes[l].parent) ]_vars

(***************************************************************************)
(* Auto-collapse.                                                          *)
(***************************************************************************)
\* C8: the append that brings a file entry to 20 matches collapses it; the flag
\* of a file entry that holds 19 matches or fewer after a step is not changed by
\* that step (so no removal expands it again), and no removal changes the flag.
C8_AutoCollapseAtTwenty ==
    [][ \A f \in Live(fileNodes) \cap Live(fileNodes') :
            LET before == Len(fileNodes[f].children)
                after == Len(fileNodes'[f].children)
            IN  /\ (after > before /\ after = 20) => ~fileNodes'[f].expanded
                /\ (after <= 19 \/ after < before)
                       => fileNodes'[f].expanded = fileNodes[f].expanded ]_vars

\* a file entry that was collapsed at 20 matches and holds 19 after a removal
C8_Witness ==
    \E f \in IndexFileNodes :
        Len(fileNodes[f].children) = 19 /\ ~fileNodes[f].expanded

(***************************************************************************)
(* Failure of the editor or of the file's content.                         *)
(***************************************************************************)
\* the file a shown node belongs to
FileOf(n) == IF n.kind = "file" THEN fileNodes[n.node].file ELSE lineNodes[n.node].file

\* C11: a replace or preview request on a file that cannot be read or opened
\* leaves the ResultIndex as it was: neither the request nor its failure removes
\* a line entry or changes a stored character.
C11_FailureChangesNothing ==
    [][ /\ \A n \in ShownNodes :
              (FileOf(n) \in Unreadable /\ DoReplace(n)) => IndexView' = IndexView
        /\ (pendingReplace # << >> /\ ApplyReplace) => IndexView' = IndexView
        /\ \A l \in ShownLineNodes : SelectPreview(l) => IndexView' = IndexView ]_vars

(***************************************************************************)
(* Decoration idempotence.                                                 *)
(***************************************************************************)
\* C12: every sync hands the editor, as old set, the handle set the previous
\* sync of that target stored, so the editor holds exactly the one handle set
\* stored under its key: syncing again with an unchanged file entry leaves the
\* number of ranges as it was.
C12_EditorHoldsStoredHandles ==
    \A f \in Files : editorDecorations[f] = appliedDecorations[f]

\* the editor of a file was synced, and a completion of the running session
\* syncs it again with the file entry unchanged
C12_Witness ==
    \E f \in shownEditors :
        /\ appliedDecorations[f] # << >>
        /\ getFileNodesByUri(Widget, f) # << >>
        /\ \A fn \in Range(getFileNodesByUri(Widget, f)) :
               createEditorDecorations(Widget, fn) = appliedDecorations[f]
        /\ ProviderRuns(cancelIndicator) /\ cancelIndicator \notin cancelled

(***************************************************************************)
(* Uniqueness of siblings.                                                 *)
(***************************************************************************)
\* C13: no file entry of the index holds two line entries with the same line,
\* character and line text.
C13_SiblingsDiffer ==
    \A f \in IndexFileNodes :
        \A i, j \in 1..Len(fileNodes[f].children) :
            equal(lineNodes[fileNodes[f].children[i]], lineNodes[fileNodes[f].children[j]])
                => i = j

(***************************************************************************)
(* Sessions.                                                               *)
(***************************************************************************)
\* C14: search('') leaves the index empty, cancels the token of the previous
\* session, publishes the empty snapshot and does not call the provider, and a
\* search that did not call the provider never gets an answer from it.
C14_EmptyTermClears ==
    [][ /\ (Len(searchCall') # Len(searchCall) /\ Search(0)) =>
            /\ resultTree' = << >>
            /\ IndexView' = << >>
            /\ modelRootChildren' = << >>
            /\ cancelIndicator \in cancelled'
            /\ cancelIndicator' \notin cancelled'
            /\ searchCall'[cancelIndicator'] = "none"
        /\ \A t \in 1..Len(searchCall) :
            searchCall[t] = "none" => searchCall'[t] = "none" ]_vars

\* the empty term was searched while a callback of the previous session, which
\* the provider had been asked to run, was suspended
C14_Witness ==
    /\ searchTerm = 0
    /\ cancelIndicator = 2
    /\ searchCall = << "resolved", "none" >>
    /\ 1 \in cancelled
    /\ 1 \in providerCancels
    /\ pendingResults # EmptyBag
    /\ modelRootChildren = << >>

\* C15: when the provider rejects the search, no match is in the index and the
\* published snapshot is empty.
C15_RejectedSearchIsEmpty ==
    (cancelIndicator \in 1..Len(searchCall) /\ searchCall[cancelIndicator] = "rejected")
        => /\ IndexView = << >>
           /\ modelRootChildren = << >>

\* C16: the token of the current search is the only one that is not
\* cancelled; a step that makes a new token current cancels the one that was
\* current, and a cancelled token stays cancelled and is never current again.
C16_OneLiveToken ==
    /\ [](\A t \in 0..Len(searchCall) : t \notin cancelled <=> t = cancelIndicator)
    /\ [][ /\ cancelled \subseteq cancelled'
           /\ cancelIndicator' # cancelIndicator =>
                /\ cancelIndicator \in cancelled'
                /\ cancelIndicator' \notin 0..Len(searchCall) ]_vars

\* a second search is current and the first, whose callbacks are still due, is
\* cancelled
C16_Witness ==
    /\ cancelIndicator = 2
    /\ cancelled = { 0, 1 }
    /\ searchCall[1] = "resolved"
    /\ pendingResults # EmptyBag

\* a root, file or line entry that was not in the index is in it after the step
EntryAdded ==
    \/ Range(IndexKeys') \ Range(IndexKeys) # {}
    \/ IndexFileNodes' \ IndexFileNodes # {}
    \/ IndexLineNodes' \ IndexLineNodes # {}

\* C17: the step that starts a search leaves no entry in the index, and an entry
\* is added to the index only by a callback of the current search: the index
\* never holds entries of two searches.
C17_EntriesOfOneSession ==
    [][ /\ cancelIndicator' # cancelIndicator => IndexView' = << >>
        /\ EntryAdded => CallbackOf(cancelIndicator) ]_vars

\* the second search has a match in the index while a callback of the first,
\* which had a match too, is still suspended
C17_Witness ==
    /\ cancelIndicator = 2
    /\ IndexLineNodes # {}
    /\ discovered # << >>
    /\ \E c \in BagToSet(pendingResults) : c.token = 1

(***************************************************************************)
(* Replacement of a file entry.                                            *)
(***************************************************************************)
\* C18: the replace operations issued in one batch are in ascending order of
\* line and character, in whatever order the matches arrived.
C18_OperationsAscend ==
    \A k \in 1..Len(edits) :
        \A i, j \in 1..Len(edits[k].ops) :
            i < j => \/ edits[k].ops[i].line < edits[k].ops[j].line
                     \/ /\ edits[k].ops[i].line = edits[k].ops[j].line
                        /\ edits[k].ops[i].start < edits[k].ops[j].start

(***************************************************************************)
(* Removal and the session.                                                *)
(***************************************************************************)
\* the index holds a line entry for the match
Aggregated(result) ==
    \E l \in IndexLineNodes :
        /\ lineNodes[l].file = result.file
        /\ lineNodes[l].line = result.line
        /\ lineNodes[l].character = result.character

\* C19: a removal leaves the current token, the cancelled tokens, the provider's
\* cancel requests, the search calls and the suspended callbacks as they were,
\* and a match the current search delivers, after a removal as before, is taken
\* into the index unless the index already holds it.
C19_RemoveKeepsSession ==
    [][ /\ \/ /\ cancelIndicator' = cancelIndicator
                 /\ cancelled' = cancelled
                 /\ providerCancels' = providerCancels
                 /\ searchCall' = searchCall
                 /\ pendingResults' = pendingResults
              \/ \A n \in ShownNodes : ~DoRemove(n)
        /\ \/ IndexLineNodes' # IndexLineNodes
           \/ pendingResults' # pendingResults
           \/ searchCall' # searchCall
           \/ cancelIndicator' # cancelIndicator
           \/ cancelIndicator \in cancelled
           \/ SearchIdOf(cancelIndicator) = 0
           \/ \A result \in MainResults :
                 \/ Aggregated(result)
                 \/ ~OnResult(cancelIndicator, cancelIndicator, result, MainBounds) ]_vars

\* the only match of the running search was removed: the root entry is left
\* without a file entry, and the token is not cancelled
C19_Witness ==
    /\ cancelIndicator \notin cancelled
    /\ ProviderRuns(cancelIndicator)
    /\ SearchIdOf(cancelIndicator) \notin providerCancels
    /\ discovered # << >>
    /\ resultTree # << >>
    /\ IndexFileNodes = {}
    /\ pendingResults = EmptyBag

(***************************************************************************)
(* Publication.                                                            *)
(***************************************************************************)
\* the decorations of the last file entry of the file in the index
DecorationsOf(w, file) ==
    createEditorDecorations(w, getFileNodesByUri(w, file)[Len(getFileNodesByUri(w, file))])

\* C20: the completion of the current search publishes the root entries of the
\* index, in the order of the index, and leaves every shown editor whose file
\* has an entry with the decorations of that entry; a match callback publishes
\* nothing and decorates nothing.
C20_OnDonePublishes ==
    [][ /\ \/ /\ IndexView' = IndexView
                 /\ modelRootChildren' = TreeValues(resultTree')
                 /\ \A f \in shownEditors :
                       getFileNodesByUri(Widget', f) # << >>
                          => appliedDecorations'[f] = DecorationsOf(Widget', f)
              \/ \A t \in Tokens \ cancelled : ~OnDone(t)
        /\ \/ /\ modelRootChildren' = modelRootChildren
                 /\ appliedDecorations' = appliedDecorations
                 /\ editorDecorations' = editorDecorations
              \/ /\ \A t \in Tokens, result \in MainResults :
                       ~OnResult(t, t, result, MainBounds)
                 /\ \A c \in BagToSet(pendingResults) : ~OnResultResume(c) ]_vars

\* the first search has completed: both its matches are published and the
\* editor of their file shows a decoration for each
C20_Witness ==
    /\ cancelIndicator = 1
    /\ Cardinality(IndexLineNodes) = 2
    /\ modelRootChildren # << >>
    /\ modelRootChildren = TreeValues(resultTree)
    /\ "a" \in shownEditors
    /\ Len(appliedDecorations["a"]) = 2

(***************************************************************************)
(* Entries under construction.                                             *)
(***************************************************************************)
\* C21: every root entry of the index holds a file entry, and every file entry
\* attached to a root of the index holds a line entry, also while a match
\* callback is suspended at the icon.
C21_NoHalfBuiltEntry ==
    /\ \A i \in 1..Len(resultTree) : rootNodes[resultTree[i].node].children # << >>
    /\ \A f \in IndexFileNodes : fileNodes[f].children # << >>

\* C22: a root entry of the index has at most one file entry per file.
C22_OneFileEntryPerFile ==
    \A k \in 1..Len(resultTree) :
        \A i, j \in 1..Len(rootNodes[resultTree[k].node].children) :
            fileNodes[rootNodes[resultTree[k].node].children[i]].file
                = fileNodes[rootNodes[resultTree[k].node].children[j]].file
              => i = j

(***************************************************************************)
(* Auto-collapse of a file entry that was expanded again.                  *)
(***************************************************************************)
\* C23: an append to a file entry that holds 20 matches or more and is expanded
\* leaves it expanded.
C23_CollapseOnlyOnCrossing ==
    [][ \A f \in Live(fileNodes) \cap Live(fileNodes') :
            ( /\ Len(fileNodes[f].children) >= CollapseThreshold
              /\ Len(fileNodes'[f].children) > Len(fileNodes[f].children)
              /\ fileNodes[f].expanded )
            => fileNodes'[f].expanded ]_vars

(***************************************************************************)
(* What a replacement leaves alone.                                        *)
(***************************************************************************)
\* C24: replaceOne on a line entry changes the stored line, character and length
\* of no line node but the siblings to its right on its line: the nodes of other
\* lines, those at or left of it on its line, the node itself and the nodes of
\* other file entries keep theirs.
C24_ShiftTouchesRightSiblingsOnly ==
    [][ \A s \in Live(lineNodes) \cap Live(lineNodes') :
            \/ /\ lineNodes'[s].line = lineNodes[s].line
               /\ lineNodes'[s].character = lineNodes[s].character
               /\ lineNodes'[s].length = lineNodes[s].length
            \/ \A l \in ShownLineNodes :
                  \/ ~DoReplace([ kind |-> "line", node |-> l ])
                  \/ /\ s \in Range(fileNodes[lineNodes[l].parent].children)
                     /\ lineNodes[s].line = lineNodes[l].line
                     /\ lineNodes[s].character > lineNodes[l].character ]_vars

\* the first match of line 1 is being replaced by a term of six characters: the
\* match at 5 of that line is stored at 8 and the match at 4 of line 2 at 4
C24_Witness ==
    /\ replaceTerm = 6 /\ searchTerm = 3
    /\ Len(pendingReplace) = 1
    /\ \E l \in Range(pendingReplace[1].toReplace) :
          lineNodes[l].line = 1 /\ lineNodes[l].id[3] = 1 /\ lineNodes[l].character = 1
    /\ \E s2, s3 \in IndexLineNodes :
          /\ lineNodes[s2].line = 1 /\ lineNodes[s2].id[3] = 5 /\ lineNodes[s2].character = 8
          /\ lineNodes[s3].line = 2 /\ lineNodes[s3].id[3] = 4 /\ lineNodes[s3].character = 4

\* C25: making the replace preview changes no line node, adds no entry to the
\* index and removes none, and edits no file.
C25_PreviewReadsOnly ==
    [][ \/ /\ lineNodes' = lineNodes
           /\ IndexView' = IndexView
           /\ docs' = docs
           /\ edits' = edits
           /\ pendingReplace' = pendingReplace
        \/ \A l \in ShownLineNodes : ~SelectPreview(l) ]_vars

\* the preview of file a shows a line that differs from the file's, whose
\* matches are still in the index and whose text was not edited
C25_Witness ==
    /\ preview # << >>
    /\ preview[1].lines # docs[preview[1].file]
    /\ docs = FileText
    /\ \E l \in IndexLineNodes : lineNodes[l].file = preview[1].file

(***************************************************************************)
(* Staleness of both callbacks.                                            *)
(***************************************************************************)
\* C26: a match callback or a completion callback whose token is cancelled, or
\* that carries a search id other than the one of its session, changes neither
\* the index nor the published snapshot nor the decorations.
C26_BothCallbacksFiltered ==
    [][ \/ /\ IndexView' = IndexView
           /\ modelRootChildren' = modelRootChildren
           /\ appliedDecorations' = appliedDecorations
        \/ \A t \in Tokens, aSearchId \in Tokens :
              (t \in cancelled \/ aSearchId # SearchIdOf(t))
                => /\ ~OnDoneWith(t, aSearchId)
                   /\ \A result \in MainResults :
                         ~OnResult(t, aSearchId, result, MainBounds) ]_vars

(***************************************************************************)
(* Removal of a file entry.                                                *)
(***************************************************************************)
\* C27: the removal of a file entry leaves it attached to no root entry,
\* whatever number of line entries it holds, and every removal ends with the
\* root entries of the index published.
C27_RemoveFileDetaches ==
    [][ \A n \in ShownNodes :
            DoRemove(n) =>
               /\ modelRootChildren' = TreeValues(resultTree')
               /\ n.kind = "file" =>
                     \A r \in Live(rootNodes') : n.node \notin Range(rootNodes'[r].children) ]_vars

(***************************************************************************)
(* The entry a replacement removes.                                        *)
(***************************************************************************)
\* C28: replaceOne on a line entry takes that entry, and no other, out of the
\* children of its file entry.
C28_ReplaceRemovesItsEntry ==
    [][ \A l \in ShownLineNodes :
            DoReplace([ kind |-> "line", node |-> l ]) =>
               ( lineNodes[l].parent \in Live(fileNodes')
                   => fileNodes'[lineNodes[l].parent].children
                        = SelectSeq(fileNodes[lineNodes[l].parent].children,
                                    LAMBDA x : x # l) ) ]_vars

(***************************************************************************)
(* Completeness of a search that is not superseded.                        *)
(***************************************************************************)
\* C29: once no match callback is suspended, the index holds a line entry for
\* every match the provider delivered to the search.
C29_DeliveredMatchesAggregated ==
    pendingResults = EmptyBag => \A result \in delivered : Aggregated(result)

(***************************************************************************)
(* The index after replaceAll.                                             *)
(***************************************************************************)
\* The index is empty although the current search has put a root into it:
\* replaceAll has emptied it (only search() and replaceAll() clear resultTree,
\* and search() starts the history anew) and nothing was added since.
EmptiedByReplaceAll == resultTree = << >> /\ discovered # << >>

\* C30: once replaceAll has emptied the index, no step leaves an entry in it
\* before search() is called again.
C30_EmptyAfterReplaceAll ==
    [][ EmptiedByReplaceAll => (resultTree' = << >> \/ cancelIndicator' # cancelIndicator) ]_vars

(***************************************************************************)
(* DebugMainImpl (plugin-ext, main side).  A proxyContributor is an object *)
(* $registerDebugConfigurationProvider creates; the model keeps the        *)
(* objects in the heap contributors, an object is its index there, 0 is    *)
(* undefined.  sessionIdDeferred is the Deferred<string> the object's      *)
(* closures share: 0 while it is pending, else the session id it was       *)
(* resolved with.  Session ids are numbers, each handed out once.          *)
(***************************************************************************)
MaxContributors == 3
MaxSessions == 3
MaxConnections == 2

\* Deferred.resolve: settles a pending promise; a settled promise keeps its value
resolve(deferred, value) == IF deferred = 0 THEN value ELSE deferred

\* the object literal of $registerDebugConfigurationProvider, with a new Deferred
proxyContributor(contributorId, type) ==
    [ contributorId |-> contributorId, type |-> type, sessionIdDeferred |-> 0 ]

\* DebugContributionManager.registerDebugPluginContributor(type, contributor):
\* the registries it may leave.  The contributor is entered under its type;
\* where the type is taken already, the manager either replaces the entry or
\* refuses the newcomer.
registerDebugPluginContributor(registry, type, contributor) ==
    { [ registry EXCEPT ![type] = contributor ] } \cup
    ( IF registry[type] # 0 THEN { registry } ELSE { } )

\* DebugContributionManager.unregisterDebugPluginContributor(type)
unregisterDebugPluginContributor(registry, type) ==
    [ registry EXCEPT ![type] = 0 ]

\* the contributors registered with the contribution manager
Registered == { pluginContributors[type] : type \in DebugTypes } \ { 0 }

\* $registerDebugConfigurationProvider(contributorId, description)
RegisterDebugConfigurationProvider(contributorId, type) ==
    /\ Len(contributors) < MaxContributors
    /\ LET contributor == Len(contributors) + 1 IN
       /\ contributors' = Append(contributors, proxyContributor(contributorId, type))
       /\ proxyContributors' = [ proxyContributors EXCEPT ![contributorId] = contributor ]
       /\ pluginContributors' \in
              registerDebugPluginContributor(pluginContributors, type, contributor)
    /\ UNCHANGED << createCalls, factoryCalls, connections, returned >>
    /\ UNCHANGED widgetVars

\* $unregisterDebugConfigurationProvider(contributorId)
UnregisterDebugConfigurationProvider(contributorId) ==
    /\ LET contributor == proxyContributors[contributorId] IN
       IF contributor # 0
       THEN /\ pluginContributors' = unregisterDebugPluginContributor(
                    pluginContributors, contributors[contributor].type)
            /\ proxyContributors' = [ proxyContributors EXCEPT ![contributorId] = 0 ]
       ELSE UNCHANGED << pluginContributors, proxyContributors >>
    /\ UNCHANGED << contributors, createCalls, factoryCalls, connections, returned >>
    /\ UNCHANGED widgetVars

\* the number of session ids the plugin host has handed out
SessionCount == Len(returned)

\* proxyContributor.createDebugSession, up to its await: the session manager
\* calls it on a contributor the contribution manager gave it
CreateDebugSession(contributor) ==
    /\ contributor \in Registered
    /\ Len(createCalls) < MaxSessions
    /\ createCalls' = Append(createCalls,
           [ contributor |-> contributor, state |-> "awaiting", sessionId |-> 0 ])
    /\ UNCHANGED << contributors, proxyContributors, pluginContributors,
                    factoryCalls, connections, returned >>
    /\ UNCHANGED widgetVars

\* createDebugSession after its await: a mutant that resolves a new Deferred
createDebugSessionNewDeferred(object, sessionId) ==
    [ object EXCEPT !.sessionIdDeferred = sessionId ]

\* createDebugSession after its await: sessionIdDeferred.resolve(sessionId)
createDebugSessionResume(object, sessionId) ==
    [ object EXCEPT !.sessionIdDeferred = resolve(@, sessionId) ]

\* $createDebugSession returns the id of the session the plugin host made, and
\* the call createCalls[call] goes on
CreateDebugSessionResume(call) ==
    /\ call \in 1..Len(createCalls)
    /\ createCalls[call].state = "awaiting"
    /\ LET contributor == createCalls[call].contributor
           sessionId == SessionCount + 1 IN
       /\ contributors' = [ contributors EXCEPT
              ![contributor] = createDebugSessionResume(@, sessionId) ]
       /\ createCalls' = [ createCalls EXCEPT
              ![call] = [ @ EXCEPT !.state = "returned", !.sessionId = sessionId ] ]
       /\ returned' = Append(returned,
              [ contributor |-> contributor, call |-> call, sessionId |-> sessionId ])
    /\ UNCHANGED << proxyContributors, pluginContributors, factoryCalls, connections >>
    /\ UNCHANGED widgetVars

\* $createDebugSession rejects: the await throws and createDebugSession ends
CreateDebugSessionRejected(call) ==
    /\ call \in 1..Len(createCalls)
    /\ createCalls[call].state = "awaiting"
    /\ createCalls' = [ createCalls EXCEPT ![call] = [ @ EXCEPT !.state = "rejected" ] ]
    /\ UNCHANGED << contributors, proxyContributors, pluginContributors,
                    factoryCalls, connections, returned >>
    /\ UNCHANGED widgetVars

\* proxyContributor.getConnectionFactory, up to `await sessionIdDeferred.promise`
GetConnectionFactory(contributor) ==
    /\ contributor \in Registered
    /\ BagCardinality(factoryCalls) + Len(connections) < MaxConnections
    /\ factoryCalls' = factoryCalls (+) SetToBag({ contributor })
    /\ UNCHANGED << contributors, proxyContributors, pluginContributors,
                    createCalls, connections, returned >>
    /\ UNCHANGED widgetVars

\* getConnectionFactory once the promise of sessionIdDeferred is fulfilled:
\* connectionMain.ensureConnection(id)
EnsureConnection(contributor) ==
    /\ BagIn(contributor, factoryCalls)
    /\ contributors[contributor].sessionIdDeferred # 0
    /\ connections' = Append(connections,
           [ contributor |-> contributor, id |-> contributors[contributor].sessionIdDeferred,
             sessions |-> SessionCount ])
    /\ factoryCalls' = factoryCalls (-) SetToBag({ contributor })
    /\ UNCHANGED << contributors, proxyContributors, pluginContributors,
                    createCalls, returned >>
    /\ UNCHANGED widgetVars

(***************************************************************************)
(* Plugins registering and unregistering debug configuration providers.    *)
(***************************************************************************)
NextDebug ==
    \/ \E contributorId \in ContributorIds, type \in DebugTypes :
           RegisterDebugConfigurationProvider(contributorId, type)
    \/ \E contributorId \in ContributorIds :
           UnregisterDebugConfigurationProvider(contributorId)

SpecDebug == Init /\ [][NextDebug]_vars

(***************************************************************************)
(* Debug sessions of the registered contributors.                          *)
(***************************************************************************)
NextSession ==
    \/ RegisterDebugConfigurationProvider("c1", "node")
    \/ UnregisterDebugConfigurationProvider("c1")
    \/ \E contributor \in Registered : CreateDebugSession(contributor)
    \/ \E call \in 1..Len(createCalls) : CreateDebugSessionResume(call)
    \/ \E call \in 1..Len(createCalls) : CreateDebugSessionRejected(call)
    \/ \E contributor \in Registered : GetConnectionFactory(contributor)
    \/ \E contributor \in BagToSet(factoryCalls) : EnsureConnection(contributor)

SpecSession == Init /\ [][NextSession]_vars

(***************************************************************************)
(* C31                                                                     *)
(***************************************************************************)
\* the contributors of contributorId the contribution manager holds
RegisteredOf(contributorId) ==
    { contributor \in Registered : contributors[contributor].contributorId = contributorId }

\* C31: after $unregisterDebugConfigurationProvider(contributorId) the contribution
\* manager holds no contributor that was registered with that contributorId, however
\* often the id was registered; for an id DebugMainImpl does not know, the call
\* leaves the manager's registry and DebugMainImpl's map as they are.
C31_UnregisterRemovesContributors ==
    [][ \A contributorId \in ContributorIds :
            UnregisterDebugConfigurationProvider(contributorId) =>
                /\ RegisteredOf(contributorId)' = { }
                /\ proxyContributors[contributorId] = 0 =>
                       UNCHANGED << pluginContributors, proxyContributors >> ]_vars

(***************************************************************************)
(* C32                                                                     *)
(***************************************************************************)
\* the createDebugSession calls of the contributor that returned, in order of return
ReturnedOf(contributor) ==
    { r \in 1..Len(returned) : returned[r].contributor = contributor }

\* the session id the first of them returned
FirstSessionId(contributor) ==
    returned[CHOOSE r \in ReturnedOf(contributor) :
                 \A q \in ReturnedOf(contributor) : r <= q].sessionId

\* C32: getConnectionFactory calls ensureConnection only when a createDebugSession
\* of its contributor has returned a session id, and the id it passes is the one
\* the first createDebugSession of the contributor to return has returned, however
\* many sessions the contributor has created since.
C32_ConnectionOfFirstSession ==
    \A k \in 1..Len(connections) :
        /\ ReturnedOf(connections[k].contributor) # { }
        /\ connections[k].id = FirstSessionId(connections[k].contributor)

\* ensureConnection was called for a contributor two of whose createDebugSession
\* calls had returned by then
C32_Witness ==
    \E k \in 1..Len(connections) :
        Cardinality({ r \in ReturnedOf(connections[k].contributor) :
                          r <= connections[k].sessions }) >= 2
====
